---- MODULE Spec2Model ----
(***************************************************************************)
(* Model of src/actions.py: the tag-to-alarm compiler of the CloudWatch    *)
(* auto-alarm handler.  Python strings are TLA+ strings, handled character *)
(* by character (Len, SubSeq, \o), so that split('-'), startswith and      *)
(* format behave as in the source.  A Python exception is a result record  *)
(* whose field raised is TRUE.                                             *)
(***************************************************************************)
EXTENDS Integers, Sequences, FiniteSets, TLC

VARIABLES
    default_alarms,   \* the default_alarms mapping handed to every invocation
    store,            \* the alarm store (CloudWatch): a set of alarm definitions
    invocations,      \* number of handler invocations so far
    call,             \* the last invocation: its name and arguments
    putCalls,         \* the put_metric_alarm calls of the last invocation, in order
    deleteCalls,      \* the delete_alarms API calls of the last invocation
    outcome,          \* how the last invocation ended: raised, and its return value
    pre               \* default_alarms and store as they were before the last invocation

vars == <<default_alarms, store, invocations, call, putCalls, deleteCalls, outcome, pre>>

----------------------------------------------------------------------------
(* Bounds of the model *)

MaxInvocations == 3
MaxTags == 2
MaxFail == 2
MaxDims == 2

----------------------------------------------------------------------------
(* Python string primitives *)

\* actions.py:11
valid_comparators ==
    {"GreaterThanOrEqualToThreshold", "GreaterThanThreshold", "LessThanThreshold",
     "LessThanOrEqualToThreshold"}

\* str.startswith
startswith(s, p) == Len(p) <= Len(s) /\ SubSeq(s, 1, Len(p)) = p

\* the Python operator "sub in s" on strings
contains(s, sub) ==
    \E i \in 1..(Len(s) + 1) : i + Len(sub) - 1 <= Len(s) /\ SubSeq(s, i, i + Len(sub) - 1) = sub

\* the positions of the separator '-' in s
SeparatorPositions(s) == {i \in 1..Len(s) : SubSeq(s, i, i) = "-"}

\* the position of the k-th separator of s; 0 before the first token and
\* Len(s) + 1 after the last one
SeparatorAt(s, k) ==
    LET P == SeparatorPositions(s)
    IN IF k = 0 THEN 0
       ELSE IF k > Cardinality(P) THEN Len(s) + 1
       ELSE CHOOSE p \in P : Cardinality({q \in P : q < p}) = k - 1

\* str.split('-'): the tokens between consecutive separators, empty ones included
split(s) ==
    [k \in 1..(Cardinality(SeparatorPositions(s)) + 1) |->
        SubSeq(s, SeparatorAt(s, k - 1) + 1, SeparatorAt(s, k) - 1)]

upper_to_lower ==
    [A |-> "a", B |-> "b", C |-> "c", D |-> "d", E |-> "e", F |-> "f", G |-> "g",
     H |-> "h", I |-> "i", J |-> "j", K |-> "k", L |-> "l", M |-> "m", N |-> "n",
     O |-> "o", P |-> "p", Q |-> "q", R |-> "r", S |-> "s", T |-> "t", U |-> "u",
     V |-> "v", W |-> "w", X |-> "x", Y |-> "y", Z |-> "z"]

RECURSIVE lower(_)
\* str.lower: every character mapped, the string halved at each step
lower(s) ==
    IF s = "" THEN ""
    ELSE IF Len(s) = 1
         THEN (IF s \in DOMAIN upper_to_lower THEN upper_to_lower[s] ELSE s)
         ELSE lower(SubSeq(s, 1, Len(s) \div 2)) \o lower(SubSeq(s, Len(s) \div 2 + 1, Len(s)))

digit_value ==
    ("0" :> 0) @@ ("1" :> 1) @@ ("2" :> 2) @@ ("3" :> 3) @@ ("4" :> 4) @@
    ("5" :> 5) @@ ("6" :> 6) @@ ("7" :> 7) @@ ("8" :> 8) @@ ("9" :> 9)

\* a non-empty string of decimal digits
IsDigits(s) ==
    /\ Len(s) > 0
    /\ \A i \in 1..Len(s) : SubSeq(s, i, i) \in DOMAIN digit_value

RECURSIVE DigitsValue(_)
DigitsValue(s) ==
    IF s = "" THEN 0
    ELSE DigitsValue(SubSeq(s, 1, Len(s) - 1)) * 10 + digit_value[SubSeq(s, Len(s), Len(s))]

\* int(s) and float(s) on the strings of this model (letters, digits, '/', '_', '.'
\* free of sign, blank and exponent): a string of digits converts, any other raises
\* ValueError.  The float 80.0 is written 80.
int(s) == IF IsDigits(s) THEN [raised |-> FALSE, value |-> DigitsValue(s)]
          ELSE [raised |-> TRUE, value |-> 0]

float(s) == int(s)

\* A Python value that is either a str or an int (the Period of an alarm)
PyStr(s) == [type |-> "str", str |-> s, int |-> 0]
PyInt(n) == [type |-> "int", str |-> "", int |-> n]

----------------------------------------------------------------------------
(* convert_to_seconds, actions.py:270-278 *)

seconds_per_unit == [s |-> 1, m |-> 60, h |-> 3600, d |-> 86400, w |-> 604800]

\* convert_to_seconds with the minute taken for a second
convert_to_seconds_minute_as_second(s) ==
    LET magnitude == int(SubSeq(s, 1, Len(s) - 1))
        unit == IF s = "" THEN "" ELSE SubSeq(s, Len(s), Len(s))
    IN IF s = "" \/ magnitude.raised \/ unit \notin DOMAIN seconds_per_unit
       THEN [raised |-> TRUE, value |-> 0]
       ELSE [raised |-> FALSE,
             value |-> magnitude.value * [seconds_per_unit EXCEPT !.m = 1][unit]]

convert_to_seconds(s) ==
    LET magnitude == int(SubSeq(s, 1, Len(s) - 1))
        unit == IF s = "" THEN "" ELSE SubSeq(s, Len(s), Len(s))
    IN IF s = "" \/ magnitude.raised \/ unit \notin DOMAIN seconds_per_unit
       THEN [raised |-> TRUE, value |-> 0]
       ELSE [raised |-> FALSE, value |-> magnitude.value * seconds_per_unit[unit]]

----------------------------------------------------------------------------
(* create_alarm, actions.py:283-323 *)

\* Python's None
None == "None"

AlarmDescription == "Alarm created by lambda function CloudWatchAutoAlarms"

EvaluationPeriods == 1

\* create_alarm without the try around put_metric_alarm: a store failure leaves
\* create_alarm as an exception
create_alarm_store_failure_raised(AlarmName, MetricName, ComparisonOperator, Period, Threshold, Statistic, Namespace, Dimensions, sns_topic_arn, put_ok) ==
    LET seconds == convert_to_seconds(Period)
        Period1 == IF seconds.raised THEN PyStr(Period) ELSE PyInt(seconds.value)
        Threshold1 == float(Threshold)
        alarm == [AlarmName |-> AlarmName,
                  AlarmDescription |-> "Alarm created by lambda function CloudWatchAutoAlarms",
                  MetricName |-> MetricName,
                  Namespace |-> Namespace,
                  Dimensions |-> Dimensions,
                  Period |-> Period1,
                  EvaluationPeriods |-> 1,
                  Threshold |-> Threshold1.value,
                  ComparisonOperator |-> ComparisonOperator,
                  Statistic |-> Statistic,
                  AlarmActions |-> IF sns_topic_arn # "None" THEN <<sns_topic_arn>> ELSE <<>>]
    IN IF Threshold1.raised
       THEN [raised |-> TRUE, put |-> <<>>]
       ELSE [raised |-> ~put_ok, put |-> <<[alarm |-> alarm, acked |-> put_ok]>>]

\* The result of one call of create_alarm: raised (the exception left
\* create_alarm), and put, the put_metric_alarm calls it issued (none or one), each
\* with the alarm passed and whether the store acknowledged it.  put_ok is the
\* store's answer to this call.  AlarmActions <<>> stands for the absent key.
create_alarm(AlarmName, MetricName, ComparisonOperator, Period, Threshold, Statistic, Namespace, Dimensions, sns_topic_arn, put_ok) ==
    LET seconds == convert_to_seconds(Period)
        \* lines 287-293: the exception is logged and Period keeps the string
        Period1 == IF seconds.raised THEN PyStr(Period) ELSE PyInt(seconds.value)
        \* line 295, outside any try
        Threshold1 == float(Threshold)
        alarm == [AlarmName |-> AlarmName,
                  AlarmDescription |-> AlarmDescription,
                  MetricName |-> MetricName,
                  Namespace |-> Namespace,
                  Dimensions |-> Dimensions,
                  Period |-> Period1,
                  EvaluationPeriods |-> EvaluationPeriods,
                  Threshold |-> Threshold1.value,
                  ComparisonOperator |-> ComparisonOperator,
                  Statistic |-> Statistic,
                  AlarmActions |-> IF sns_topic_arn # None THEN <<sns_topic_arn>> ELSE <<>>]
    IN IF Threshold1.raised
       THEN [raised |-> TRUE, put |-> <<>>]
       \* lines 296-323: a failure of put_metric_alarm is caught and logged
       ELSE [raised |-> FALSE, put |-> <<[alarm |-> alarm, acked |-> put_ok]>>]

\* put_metric_alarm on the store: replace by name
PutAlarm(s, alarm) == {a \in s : a.AlarmName # alarm.AlarmName} \cup {alarm}

RECURSIVE ApplyPuts(_, _)
\* the store after a sequence of put_metric_alarm calls
ApplyPuts(s, calls) ==
    IF calls = <<>> THEN s
    ELSE ApplyPuts(IF Head(calls).acked THEN PutAlarm(s, Head(calls).alarm) ELSE s,
                   Tail(calls))

\* One put_metric_alarm call as the invocation's log keeps it: list and index
\* name the default_alarms entry the call was issued for.
Logged(put, list, index) ==
    [k \in 1..Len(put) |->
        [alarm |-> put[k].alarm, acked |-> put[k].acked, list |-> list, index |-> index]]

----------------------------------------------------------------------------
(* Python sequence primitives *)

\* seq[i] with the source's 0-based index
At(seq, i) == seq[i + 1]

\* seq[i] raises IndexError
OutOfRange(seq, i) == i >= Len(seq)

\* dict.get(key, None)
Get(dict, key) == IF key \in DOMAIN dict THEN dict[key] ELSE None

\* dict.get(key, list())
GetList(dict, key) == IF key \in DOMAIN dict THEN dict[key] ELSE <<>>

\* the truth value of a str or None
Truthy(v) == v # None /\ v # ""

\* 'AutoAlarm-{}-{}...'.format: the tokens joined by '-'
RECURSIVE Join(_)
Join(tokens) ==
    IF Len(tokens) = 1 THEN tokens[1]
    ELSE tokens[1] \o "-" \o Join(Tail(tokens))

Min(S) == CHOOSE x \in S : \A y \in S : x <= y

----------------------------------------------------------------------------
(* determine_platform, actions.py:231-267 *)

\* describe_images of the EC2 API: the answer for each image id of the model
describe_images ==
    [ami_linux |-> [raised |-> FALSE,
                    Images |-> <<[PlatformDetails |-> "Linux/UNIX", Description |-> "Amazon Linux 2", Name |-> "amzn2"]>>],
     ami_ubuntu |-> [raised |-> FALSE,
                     Images |-> <<[PlatformDetails |-> "Linux/UNIX", Description |-> "Canonical", Name |-> "Ubuntu-20.04"]>>],
     ami_bsd |-> [raised |-> FALSE,
                  Images |-> <<[PlatformDetails |-> "FreeBSD", Description |-> "", Name |-> "bsd"]>>],
     ami_gone |-> [raised |-> FALSE, Images |-> <<>>],
     ami_denied |-> [raised |-> TRUE, Images |-> <<>>]]

determine_platform(imageid) ==
    LET image_info == describe_images[imageid]
        platform_details == image_info.Images[1].PlatformDetails
    IN IF image_info.raised THEN [raised |-> TRUE, value |-> None]
       ELSE IF Len(image_info.Images) > 0
       THEN [raised |-> FALSE,
             value |->
                IF contains(platform_details, "Windows") \/ contains(platform_details, "SQL Server")
                THEN "Windows"
                ELSE IF contains(platform_details, "Red Hat") THEN "Red Hat"
                ELSE IF contains(platform_details, "SUSE") THEN "SUSE"
                ELSE IF contains(platform_details, "Linux/UNIX")
                THEN IF \/ contains(lower(image_info.Images[1].Description), "ubuntu")
                        \/ contains(lower(image_info.Images[1].Name), "ubuntu")
                     THEN "Ubuntu"
                     ELSE "Amazon Linux"
                ELSE None]
       ELSE [raised |-> FALSE, value |-> None]

----------------------------------------------------------------------------
(* process_alarm_tags, actions.py:116-228 *)

\* append_instance_tags with each tag put at the head of its list
RECURSIVE append_instance_tags_at_head(_, _, _, _, _)
append_instance_tags_at_head(instance_tags, i, da, platform, cw_namespace) ==
    IF i > Len(instance_tags) THEN [raised |-> FALSE, da |-> da]
    ELSE LET instance_tag == instance_tags[i]
             custom_alarm_properties == split(instance_tag.Key)
             custom_alarm_namespace == custom_alarm_properties[2]
         IN IF ~startswith(instance_tag.Key, "AutoAlarm")
            THEN append_instance_tags_at_head(instance_tags, i + 1, da, platform, cw_namespace)
            ELSE IF Len(custom_alarm_properties) < 2
            THEN [raised |-> TRUE, da |-> da]
            ELSE IF startswith(custom_alarm_namespace, "AWS/EC2")
            THEN IF custom_alarm_namespace \notin DOMAIN da
                 THEN [raised |-> TRUE, da |-> da]
                 ELSE append_instance_tags_at_head(instance_tags, i + 1,
                        [da EXCEPT ![custom_alarm_namespace] = <<instance_tag>> \o @],
                        platform, cw_namespace)
            ELSE IF custom_alarm_namespace = cw_namespace
            THEN IF platform \notin DOMAIN da[custom_alarm_namespace]
                 THEN [raised |-> TRUE, da |-> da]
                 ELSE append_instance_tags_at_head(instance_tags, i + 1,
                        [da EXCEPT ![custom_alarm_namespace][platform] = <<instance_tag>> \o @],
                        platform, cw_namespace)
            ELSE append_instance_tags_at_head(instance_tags, i + 1, da, platform, cw_namespace)

\* lines 124-131: the instance's alarm tags are appended to the lists of
\* default_alarms.  da is the mapping so far; an entry appended before an
\* exception stays appended.
RECURSIVE append_instance_tags(_, _, _, _, _)
append_instance_tags(instance_tags, i, da, platform, cw_namespace) ==
    IF i > Len(instance_tags) THEN [raised |-> FALSE, da |-> da]
    ELSE LET instance_tag == instance_tags[i]
             custom_alarm_properties == split(instance_tag.Key)
             custom_alarm_namespace == At(custom_alarm_properties, 1)
         IN IF ~startswith(instance_tag.Key, "AutoAlarm")
            THEN append_instance_tags(instance_tags, i + 1, da, platform, cw_namespace)
            ELSE IF OutOfRange(custom_alarm_properties, 1)
            THEN [raised |-> TRUE, da |-> da]
            ELSE IF startswith(custom_alarm_namespace, "AWS/EC2")
            THEN IF custom_alarm_namespace \notin DOMAIN da
                 THEN [raised |-> TRUE, da |-> da]
                 ELSE append_instance_tags(instance_tags, i + 1,
                        [da EXCEPT ![custom_alarm_namespace] = Append(@, instance_tag)],
                        platform, cw_namespace)
            ELSE IF custom_alarm_namespace = cw_namespace
            THEN IF platform \notin DOMAIN da[custom_alarm_namespace]
                 THEN [raised |-> TRUE, da |-> da]
                 ELSE append_instance_tags(instance_tags, i + 1,
                        [da EXCEPT ![custom_alarm_namespace][platform] = Append(@, instance_tag)],
                        platform, cw_namespace)
            ELSE append_instance_tags(instance_tags, i + 1, da, platform, cw_namespace)

\* lines 134-144: the static dimensions
RECURSIVE ec2_dimensions(_, _)
ec2_dimensions(dimension_names, instance_info) ==
    IF dimension_names = <<>> THEN <<>>
    ELSE LET dim == Head(dimension_names)
             dimension_value == Get(instance_info, dim)
         IN (IF Truthy(dimension_value) THEN <<[Name |-> dim, Value |-> dimension_value]>> ELSE <<>>)
            \o ec2_dimensions(Tail(dimension_names), instance_info)

\* line 154: the alarm name of the AWS/EC2 loop
ec2_alarm_name(instance_id, Namespace, MetricName, ComparisonOperator, Value, Period) ==
    Join(<<"AutoAlarm", instance_id, Namespace, MetricName, ComparisonOperator, Value, Period>>)

\* lines 147-158: the body of the AWS/EC2 loop for one entry of the list
ec2_alarm(instance_id, tag, dimensions, sns_topic_arn, put_ok) ==
    LET alarm_properties == split(tag.Key)
        Namespace == At(alarm_properties, 1)
        MetricName == At(alarm_properties, 2)
        ComparisonOperator == At(alarm_properties, 3)
        Period == At(alarm_properties, 4)
        Statistic == At(alarm_properties, 5)
    IN IF OutOfRange(alarm_properties, 5)
       THEN [raised |-> TRUE, put |-> <<>>]
       ELSE create_alarm(ec2_alarm_name(instance_id, Namespace, MetricName, ComparisonOperator, tag.Value, Period),
                         MetricName, ComparisonOperator, Period, tag.Value, Statistic,
                         Namespace, dimensions, sns_topic_arn, put_ok)

\* line 166: the value of the instance's aws:autoscaling:groupName tag, or None
instance_asg(instance_tags) ==
    LET hits == {i \in 1..Len(instance_tags) : instance_tags[i].Key = "aws:autoscaling:groupName"}
    IN IF hits = {} THEN None ELSE instance_tags[Min(hits)].Value

\* lines 160-182: the dimensions of the agent namespace
RECURSIVE cw_agent_dimensions(_, _)
cw_agent_dimensions(dimension_names, instance_info) ==
    IF dimension_names = <<>> THEN <<>>
    ELSE LET dimension_name == Head(dimension_names)
             dimension_value == IF dimension_name = "AutoScalingGroupName"
                                THEN instance_asg(instance_info.Tags)
                                ELSE Get(instance_info, dimension_name)
         IN (IF Truthy(dimension_value)
             THEN <<[Name |-> dimension_name, Value |-> dimension_value]>>
             ELSE <<>>)
            \o cw_agent_dimensions(Tail(dimension_names), instance_info)

\* prop_end_index with the scan started one token late
prop_end_index_from_4(alarm_properties) ==
    LET hits == {index \in 4..(Len(alarm_properties) - 1) :
                    alarm_properties[index + 1] \in valid_comparators}
    IN IF hits = {} THEN 0 ELSE CHOOSE x \in hits : \A y \in hits : x <= y

\* lines 194-199: the index of the first comparator from index 3 on, 0 for None
prop_end_index(alarm_properties) ==
    LET hits == {index \in 3..(Len(alarm_properties) - 1) :
                    At(alarm_properties, index) \in valid_comparators}
    IN IF hits = {} THEN 0 ELSE Min(hits)

\* lines 210-219: the dimension of each pair of additional_dimensions[::2];
\* the caller has checked that no index is out of range
additional_pairs(additional_dimensions) ==
    [num \in 1..((Len(additional_dimensions) + 1) \div 2) |->
        [Name |-> At(additional_dimensions, (num - 1) * 2),
         Value |-> At(additional_dimensions, (num - 1) * 2 + 1)]]

RECURSIVE pairs_tokens(_)
pairs_tokens(pairs) ==
    IF pairs = <<>> THEN <<>>
    ELSE <<Head(pairs).Name, Head(pairs).Value>> \o pairs_tokens(Tail(pairs))

\* lines 207-225: the alarm name of the agent loop
agent_alarm_name(instance_id, Namespace, MetricName, pairs, ComparisonOperator, Period, Statistic) ==
    Join(<<"AutoAlarm", instance_id, Namespace, MetricName>> \o pairs_tokens(pairs)
         \o <<ComparisonOperator, Period, Statistic>>)

\* lines 187-228: the body of the agent loop for one entry of the list
agent_alarm(instance_id, tag, agent_dimensions, sns_topic_arn, put_ok) ==
    LET alarm_properties == split(tag.Key)
        Namespace == At(alarm_properties, 1)
        MetricName == At(alarm_properties, 2)
        end == prop_end_index(alarm_properties)
        additional_dimensions == SubSeq(alarm_properties, 4, end)
        pairs == additional_pairs(additional_dimensions)
        properties_offset == 2 * Len(pairs)
        ComparisonOperator == At(alarm_properties, properties_offset + 3)
        Period == At(alarm_properties, properties_offset + 4)
        Statistic == At(alarm_properties, properties_offset + 5)
    IN IF \/ OutOfRange(alarm_properties, 2)
          \* line 205: no comparator
          \/ end = 0
          \* line 211: an odd number of tokens leaves the last without a value
          \/ Len(additional_dimensions) % 2 = 1
          \/ OutOfRange(alarm_properties, properties_offset + 5)
       THEN [raised |-> TRUE, put |-> <<>>]
       ELSE create_alarm(agent_alarm_name(instance_id, Namespace, MetricName, pairs, ComparisonOperator, Period, Statistic),
                         MetricName, ComparisonOperator, Period, tag.Value, Statistic,
                         Namespace, agent_dimensions \o pairs, sns_topic_arn, put_ok)

\* lines 146-158 and 186-228: one loop over a list of default_alarms.  calls are
\* the put_metric_alarm calls of the invocation so far; the store fails the calls
\* whose number, counted from 1 over the invocation, is in fails.  The first
\* exception ends the loop and leaves it.
RECURSIVE alarm_loop(_, _, _, _, _, _, _, _)
alarm_loop(list, i, namespace, instance_id, dimensions, sns_topic_arn, fails, calls) ==
    IF i > Len(list) THEN [raised |-> FALSE, calls |-> calls]
    ELSE LET put_ok == (Len(calls) + 1) \notin fails
             r == IF namespace = "AWS/EC2"
                  THEN ec2_alarm(instance_id, list[i], dimensions, sns_topic_arn, put_ok)
                  ELSE agent_alarm(instance_id, list[i], dimensions, sns_topic_arn, put_ok)
         IN IF r.raised
            THEN [raised |-> TRUE, calls |-> calls]
            ELSE alarm_loop(list, i + 1, namespace, instance_id, dimensions, sns_topic_arn,
                            fails, calls \o Logged(r.put, namespace, i))

\* process_alarm_tags: raised, the put_metric_alarm calls issued,
\* default_alarms as the invocation leaves it, and the platform found (None when
\* the lookup raised)
process_alarm_tags(instance_id, instance_info, da, metric_dimensions_map, sns_topic_arn, cw_namespace, fails) ==
    LET instance_tags == instance_info.Tags
        platform == determine_platform(instance_info.ImageId)
        appended == append_instance_tags(instance_tags, 1, da, platform.value, cw_namespace)
        da1 == appended.da
        dimensions == ec2_dimensions(GetList(metric_dimensions_map, "AWS/EC2"), instance_info)
        ec2 == alarm_loop(da1["AWS/EC2"], 1, "AWS/EC2", instance_id, dimensions,
                          sns_topic_arn, fails, <<>>)
        agent_dimensions == cw_agent_dimensions(GetList(metric_dimensions_map, cw_namespace), instance_info)
        agent == alarm_loop(da1[cw_namespace][platform.value], 1, cw_namespace, instance_id,
                            agent_dimensions, sns_topic_arn, fails, ec2.calls)
    IN IF platform.raised
       THEN [raised |-> TRUE, calls |-> <<>>, da |-> da, platform |-> None]
       ELSE IF appended.raised
       THEN [raised |-> TRUE, calls |-> <<>>, da |-> da1, platform |-> platform.value]
       ELSE IF ec2.raised
       THEN [raised |-> TRUE, calls |-> ec2.calls, da |-> da1, platform |-> platform.value]
       \* line 186: KeyError for a platform default_alarms has no list for
       ELSE IF platform.value \notin DOMAIN da1[cw_namespace]
       THEN [raised |-> TRUE, calls |-> ec2.calls, da |-> da1, platform |-> platform.value]
       ELSE [raised |-> agent.raised, calls |-> agent.calls, da |-> da1,
             platform |-> platform.value]

----------------------------------------------------------------------------
(* process_lambda_alarms, actions.py:81-113 *)

\* dict.get(key, default) on the tags of a function, kept in insertion order
tags_get(tags, key, default) ==
    LET hits == {i \in 1..Len(tags) : tags[i].Key = key}
    IN IF hits = {} THEN default ELSE tags[Min(hits)].Value

\* lines 88-90
RECURSIVE append_function_tags(_, _, _)
append_function_tags(tags, i, list) ==
    IF i > Len(tags) THEN list
    ELSE append_function_tags(tags, i + 1,
            IF startswith(tags[i].Key, "AutoAlarm")
            THEN Append(list, [Key |-> tags[i].Key, Value |-> tags[i].Value])
            ELSE list)

\* line 109: the alarm name of the AWS/Lambda loop
lambda_alarm_name(function_name, Namespace, MetricName, ComparisonOperator, Period, Statistic) ==
    Join(<<"AutoAlarm", function_name, Namespace, MetricName, ComparisonOperator, Period, Statistic>>)

\* lines 102-113: the body of the AWS/Lambda loop for one entry of the list
lambda_alarm(function_name, tag, dimensions, sns_topic_arn, put_ok) ==
    LET alarm_properties == split(tag.Key)
        Namespace == At(alarm_properties, 1)
        MetricName == At(alarm_properties, 2)
        ComparisonOperator == At(alarm_properties, 3)
        Period == At(alarm_properties, 4)
        Statistic == At(alarm_properties, 5)
    IN IF OutOfRange(alarm_properties, 5)
       THEN [raised |-> TRUE, put |-> <<>>]
       ELSE create_alarm(lambda_alarm_name(function_name, Namespace, MetricName, ComparisonOperator, Period, Statistic),
                         MetricName, ComparisonOperator, Period, tag.Value, Statistic,
                         Namespace, dimensions, sns_topic_arn, put_ok)

RECURSIVE lambda_loop(_, _, _, _, _, _, _)
lambda_loop(list, i, function_name, dimensions, sns_topic_arn, fails, calls) ==
    IF i > Len(list) THEN [raised |-> FALSE, calls |-> calls]
    ELSE LET put_ok == (Len(calls) + 1) \notin fails
             r == lambda_alarm(function_name, list[i], dimensions, sns_topic_arn, put_ok)
         IN IF r.raised
            THEN [raised |-> TRUE, calls |-> calls]
            ELSE lambda_loop(list, i + 1, function_name, dimensions, sns_topic_arn,
                             fails, calls \o Logged(r.put, "AWS/Lambda", i))

\* process_lambda_alarms: raised, the value returned, the put_metric_alarm
\* calls issued, and default_alarms as the invocation leaves it
process_lambda_alarms(function_name, tags, activation_tag, da, sns_topic_arn, fails) ==
    LET da1 == [da EXCEPT !["AWS/Lambda"] = append_function_tags(tags, 1, @)]
        dimensions == <<[Name |-> "FunctionName", Value |-> function_name]>>
        loop == lambda_loop(da1["AWS/Lambda"], 1, function_name, dimensions, sns_topic_arn,
                            fails, <<>>)
    IN IF tags_get(tags, activation_tag, "not_found") = "not_found"
       THEN [raised |-> FALSE, value |-> "True", calls |-> <<>>, da |-> da]
       ELSE [raised |-> loop.raised, value |-> None, calls |-> loop.calls, da |-> da1]

----------------------------------------------------------------------------
(* delete_alarms, actions.py:326-349 *)

\* describe_alarms(AlarmNamePrefix) on the store
describe_alarms(s, AlarmNamePrefix) ==
    [MetricAlarms |-> {a \in s : startswith(a.AlarmName, AlarmNamePrefix)}]

\* delete_alarms(AlarmNames) on the store
DeleteAlarms(s, AlarmNames) == {a \in s : a.AlarmName \notin AlarmNames}

\* delete_alarms that issues no delete call for an empty list
delete_alarms_skip_empty(name, s, list_ok, delete_ok) ==
    LET alarm_list == {a.AlarmName : a \in {b \in s : startswith(b.AlarmName, "AutoAlarm-" \o name)}}
    IN IF ~list_ok
       THEN [raised |-> FALSE, value |-> "None", deletes |-> <<>>, store |-> s]
       ELSE IF alarm_list = {}
       THEN [raised |-> FALSE, value |-> "True", deletes |-> <<>>, store |-> s]
       ELSE IF ~delete_ok
       THEN [raised |-> FALSE, value |-> "None", deletes |-> <<alarm_list>>, store |-> s]
       ELSE [raised |-> FALSE, value |-> "True", deletes |-> <<alarm_list>>,
             store |-> {a \in s : a.AlarmName \notin alarm_list}]

\* delete_alarms: the value returned, the delete calls issued (each the set of
\* names passed) and the store left.  list_ok and delete_ok are the answers of
\* describe_alarms and of the delete call; a failed call changes nothing.
delete_alarms(name, s, list_ok, delete_ok) ==
    LET AlarmNamePrefix == "AutoAlarm-" \o name
        response == describe_alarms(s, AlarmNamePrefix)
        alarm_list == {alarm.AlarmName : alarm \in response.MetricAlarms}
    IN IF ~list_ok
       THEN [raised |-> FALSE, value |-> None, deletes |-> <<>>, store |-> s]
       ELSE IF ~delete_ok
       THEN [raised |-> FALSE, value |-> None, deletes |-> <<alarm_list>>, store |-> s]
       ELSE [raised |-> FALSE, value |-> "True", deletes |-> <<alarm_list>>,
             store |-> DeleteAlarms(s, alarm_list)]

----------------------------------------------------------------------------
(* The configuration the handlers are called with *)

CWAgent == "CWAgent"

ActivationTag == "Create_Auto_Alarms"

Platforms == {"Windows", "Amazon Linux", "Red Hat", "Ubuntu", "SUSE"}

MetricDimensionsMap ==
    ("AWS/EC2" :> <<"InstanceId">>) @@ (CWAgent :> <<"InstanceId", "AutoScalingGroupName">>)

SnsTopics == {None, "arn:aws:sns:alarms"}

Tag(key, value) == [Key |-> key, Value |-> value]

\* default_alarms with the given default entries in its lists
DefaultAlarms(ec2, agent, lambda) ==
    ("AWS/EC2" :> ec2) @@ (CWAgent :> [p \in Platforms |-> agent]) @@ ("AWS/Lambda" :> lambda)

EmptyDefaults == DefaultAlarms(<<>>, <<>>, <<>>)

DefaultEC2 == Tag("AutoAlarm-AWS/EC2-StatusCheckFailed-GreaterThanThreshold-5m-Maximum", "1")
DefaultAgent == Tag("AutoAlarm-CWAgent-disk_used_percent-GreaterThanThreshold-5m-Average", "90")
DefaultLambda == Tag("AutoAlarm-AWS/Lambda-Errors-GreaterThanThreshold-5m-Average", "1")

ConfiguredDefaults == DefaultAlarms(<<DefaultEC2>>, <<DefaultAgent>>, <<DefaultLambda>>)

----------------------------------------------------------------------------
(* The inputs of the model *)

\* every sequence of at most n elements of S
RECURSIVE SeqsUpTo(_, _)
SeqsUpTo(S, n) ==
    IF n = 0 THEN {<<>>}
    ELSE LET shorter == SeqsUpTo(S, n - 1)
         IN shorter \cup {Append(q, x) : q \in {t \in shorter : Len(t) = n - 1}, x \in S}

DistinctKeys(tags) == \A i, j \in 1..Len(tags) : tags[i].Key = tags[j].Key => i = j

TagSeqs(S, n) == {tags \in SeqsUpTo(S, n) : DistinctKeys(tags)}

\* The store fails any subset of the first MaxFail put_metric_alarm calls
FailPatterns == SUBSET (1..MaxFail)

GoodEC2 == Tag("AutoAlarm-AWS/EC2-CPUUtilization-GreaterThanThreshold-5m-Average", "80")
SpecEC2 == Tag("AutoAlarm-AWS/EC2-CPUUtilization-GreaterThanThreshold-80-5m", "80")
BadUnitEC2 == Tag("AutoAlarm-AWS/EC2-NetworkIn-LessThanThreshold-5x-Sum", "7")
BadThresholdEC2 == Tag("AutoAlarm-AWS/EC2-NetworkOut-LessThanThreshold-1h-Sum", "high")
GoodAgent == Tag("AutoAlarm-CWAgent-mem_used_percent-GreaterThanThreshold-5m-Average", "90")
SpecAgent == Tag("AutoAlarm-CWAgent-mem_used_percent-disk_device-xvda-GreaterThanThreshold-300-Average", "80")
NoComparatorAgent == Tag("AutoAlarm-CWAgent-swap_used_percent-5m-Average", "50")
NameTag == Tag("Name", "web")
AsgTag == Tag("aws:autoscaling:groupName", "asg1")

BatchTags ==
    {GoodEC2, SpecEC2, BadUnitEC2, BadThresholdEC2, GoodAgent, SpecAgent, NoComparatorAgent,
     AsgTag}

InstanceInfo(id, image, tags) == [InstanceId |-> id, ImageId |-> image, Tags |-> tags]

\* every sequence of batch tags on a Linux instance, and the short ones on
\* instances of every other image
BatchInstances ==
    {InstanceInfo("i-0a1", "ami_linux", tags) : tags \in TagSeqs(BatchTags, MaxTags)}
        \cup {InstanceInfo("i-0a1", image, tags) :
                image \in DOMAIN describe_images, tags \in TagSeqs(BatchTags \cup {NameTag}, 1)}

ActivationOn == Tag(ActivationTag, "true")
GoodLambda == Tag("AutoAlarm-AWS/Lambda-Errors-GreaterThanThreshold-5m-Sum", "1")
BadThresholdLambda == Tag("AutoAlarm-AWS/Lambda-Throttles-GreaterThanThreshold-1h-Sum", "none")
ShortLambda == Tag("AutoAlarm-AWS/Lambda-Duration", "3")

Function(name, tags) == [FunctionName |-> name, Tags |-> tags]

BatchFunctions ==
    {Function("foo", tags) :
        tags \in TagSeqs({ActivationOn, GoodLambda, BadThresholdLambda, ShortLambda, NameTag}, MaxTags + 1)}

\* Tag keys built from their fields, for every choice of the fields
FixedArityFields ==
    [Namespace : {"AWS/EC2", "AWS/Lambda"},
     MetricName : {"CPUUtilization", "Errors"},
     ComparisonOperator : valid_comparators,
     Period : {"5m", "1h", "80"},
     Statistic : {"Average", "5m"}]

FixedArityKey(f) ==
    Join(<<"AutoAlarm", f.Namespace, f.MetricName, f.ComparisonOperator, f.Period, f.Statistic>>)

DimTokens == {"disk_device", "xvda"}

\* the tokens that follow the dimension tokens: a full suffix for every
\* comparator, one without comparator and one cut short
Suffixes ==
    {<<c, "300", "Average">> : c \in valid_comparators}
        \cup {<<"GreaterThanThreshold", "5m", "Average">>}
        \cup {<<"5m", "Average">>, <<"GreaterThanThreshold", "5m">>}

VariableArityKey(tokens, suffix) ==
    Join(<<"AutoAlarm", CWAgent, "mem_used_percent">> \o tokens \o suffix)

GeneratedTags ==
    {Tag(FixedArityKey(f), "80") : f \in {g \in FixedArityFields : g.Namespace = "AWS/EC2"}}
        \cup {Tag(VariableArityKey(tokens, suffix), "80") :
                tokens \in SeqsUpTo(DimTokens, 2 * MaxDims), suffix \in Suffixes}

GeneratedInstances == {InstanceInfo("i-0a1", "ami_linux", <<tag>>) : tag \in GeneratedTags}

GeneratedFunctions ==
    {Function("foo", <<ActivationOn, Tag(FixedArityKey(f), "80")>>) :
        f \in {g \in FixedArityFields : g.Namespace = "AWS/Lambda"}}

LifecycleInstances ==
    {InstanceInfo("i-0a1", "ami_linux", <<GoodEC2, GoodAgent>>),
     InstanceInfo("i-0b2", "ami_ubuntu", <<SpecAgent, BadUnitEC2>>)}

LifecycleFunctions ==
    {Function("foo", <<ActivationOn, GoodLambda>>),
     Function("foo-bar", <<ActivationOn, GoodLambda>>),
     Function("baz", <<GoodLambda>>)}

LifecycleNames == {"i-0a1", "foo", "foo-bar"}

LifecycleFailPatterns == {{}, {1}}

----------------------------------------------------------------------------
(* The state machine *)

NoCall ==
    [name |-> "none", resource |-> "", ImageId |-> None, platform |-> None, Tags |-> <<>>,
     fails |-> {}, sns_topic_arn |-> None, list_ok |-> TRUE, delete_ok |-> TRUE]

InitWith(configs) ==
    /\ default_alarms \in configs
    /\ store = {}
    /\ invocations = 0
    /\ call = NoCall
    /\ putCalls = <<>>
    /\ deleteCalls = <<>>
    /\ outcome = [raised |-> FALSE, value |-> None]
    /\ pre = [default_alarms |-> default_alarms, store |-> {}]

\* One invocation of process_alarm_tags on an instance
ProcessAlarmTags(instances, patterns, topics) ==
    \E instance_info \in instances, fails \in patterns, sns_topic_arn \in topics :
        \E r \in {process_alarm_tags(instance_info.InstanceId, instance_info, default_alarms,
                                    MetricDimensionsMap, sns_topic_arn, CWAgent, fails)} :
           /\ call' = [NoCall EXCEPT !.name = "process_alarm_tags",
                                     !.resource = instance_info.InstanceId,
                                     !.ImageId = instance_info.ImageId,
                                     !.platform = r.platform,
                                     !.Tags = instance_info.Tags,
                                     !.fails = fails,
                                     !.sns_topic_arn = sns_topic_arn]
           /\ default_alarms' = r.da
           /\ store' = ApplyPuts(store, r.calls)
           /\ putCalls' = r.calls
           /\ deleteCalls' = <<>>
           /\ outcome' = [raised |-> r.raised, value |-> None]
           /\ pre' = [default_alarms |-> default_alarms, store |-> store]
           /\ invocations' = invocations + 1

\* One invocation of process_lambda_alarms on a function
ProcessLambdaAlarms(functions, patterns, topics) ==
    \E function \in functions, fails \in patterns, sns_topic_arn \in topics :
        \E r \in {process_lambda_alarms(function.FunctionName, function.Tags, ActivationTag,
                                       default_alarms, sns_topic_arn, fails)} :
           /\ call' = [NoCall EXCEPT !.name = "process_lambda_alarms",
                                     !.resource = function.FunctionName,
                                     !.Tags = function.Tags,
                                     !.fails = fails,
                                     !.sns_topic_arn = sns_topic_arn]
           /\ default_alarms' = r.da
           /\ store' = ApplyPuts(store, r.calls)
           /\ putCalls' = r.calls
           /\ deleteCalls' = <<>>
           /\ outcome' = [raised |-> r.raised, value |-> r.value]
           /\ pre' = [default_alarms |-> default_alarms, store |-> store]
           /\ invocations' = invocations + 1

\* One invocation of delete_alarms
DeleteAlarmsOf(names) ==
    \E name \in names, list_ok \in BOOLEAN, delete_ok \in BOOLEAN :
        \E r \in {delete_alarms(name, store, list_ok, delete_ok)} :
           /\ list_ok \/ delete_ok
           /\ call' = [NoCall EXCEPT !.name = "delete_alarms", !.resource = name,
                                     !.list_ok = list_ok, !.delete_ok = delete_ok]
           /\ store' = r.store
           /\ putCalls' = <<>>
           /\ deleteCalls' = r.deletes
           /\ outcome' = [raised |-> r.raised, value |-> r.value]
           /\ pre' = [default_alarms |-> default_alarms, store |-> store]
           /\ invocations' = invocations + 1
           /\ UNCHANGED default_alarms

\* The handlers over the life of a deployment: instances and functions are
\* processed and deleted in any order, on one default_alarms mapping
Init == InitWith({EmptyDefaults})

InstanceTagged ==
    /\ invocations < MaxInvocations
    /\ ProcessAlarmTags(LifecycleInstances, LifecycleFailPatterns, {None})

FunctionTagged ==
    /\ invocations < MaxInvocations
    /\ ProcessLambdaAlarms(LifecycleFunctions, LifecycleFailPatterns, {None})

ResourceTerminated ==
    /\ invocations < MaxInvocations
    /\ DeleteAlarmsOf(LifecycleNames)

Next == InstanceTagged \/ FunctionTagged \/ ResourceTerminated

Spec == Init /\ [][Next]_vars

\* One invocation on every instance and function of the batch inputs, with and
\* without configured defaults
InitBatch == InitWith({EmptyDefaults, ConfiguredDefaults})

BatchInstance ==
    /\ invocations = 0
    /\ ProcessAlarmTags(BatchInstances, FailPatterns, {None})

BatchFunction ==
    /\ invocations = 0
    /\ ProcessLambdaAlarms(BatchFunctions, FailPatterns, {None})

\* one invocation on an instance or function with one tag of a generated key,
\* with and without a notification topic
GeneratedInstance ==
    /\ invocations = 0
    /\ ProcessAlarmTags(GeneratedInstances, {{}}, SnsTopics)

GeneratedFunction ==
    /\ invocations = 0
    /\ ProcessLambdaAlarms(GeneratedFunctions, {{}}, SnsTopics)

NextBatch == BatchInstance \/ BatchFunction \/ GeneratedInstance \/ GeneratedFunction

SpecBatch == InitBatch /\ [][NextBatch]_vars

----------------------------------------------------------------------------
(* Properties *)

LastIs(name) == call.name = name

\* the last invocation got past the platform lookup with a platform that
\* default_alarms has a list for
PlatformKnown == call.platform \in Platforms

\* the default_alarms entry a put_metric_alarm call of the last invocation was
\* issued for
Entry(c) ==
    IF c.list = CWAgent THEN default_alarms[CWAgent][call.platform][c.index]
    ELSE default_alarms[c.list][c.index]

\* the put_metric_alarm calls of the last invocation issued for entry index of list
CallsFor(list, index) ==
    {p \in 1..Len(putCalls) : putCalls[p].list = list /\ putCalls[p].index = index}

FixedArityTable == {[key |-> FixedArityKey(f), fields |-> f] : f \in FixedArityFields}

\* C1: for every valid fixed-arity tag key processed by the AWS/EC2 loop or the
\* AWS/Lambda loop, the AlarmName passed to create_alarm is
\* AutoAlarm-<ResourceId>-<Namespace>-<MetricName>-<ComparisonOperator>-<Period>-<Statistic>.
C1_FixedArityAlarmName ==
    \A p \in 1..Len(putCalls) :
        putCalls[p].list \in {"AWS/EC2", "AWS/Lambda"} =>
            \A e \in FixedArityTable :
                e.key = Entry(putCalls[p]).Key =>
                    putCalls[p].alarm.AlarmName =
                        Join(<<"AutoAlarm", call.resource, e.fields.Namespace, e.fields.MetricName,
                               e.fields.ComparisonOperator, e.fields.Period, e.fields.Statistic>>)

StaticDimensions == <<[Name |-> "InstanceId", Value |-> call.resource]>>

\* the last invocation was process_alarm_tags on an instance with the one tag
\* given, whose image lookup raised nothing, with empty default alarm sets
OnlyTag(tag) ==
    /\ LastIs("process_alarm_tags")
    /\ call.Tags = <<tag>>
    /\ pre.default_alarms = EmptyDefaults
    /\ ~describe_images[call.ImageId].raised

LoopLists ==
    IF LastIs("process_lambda_alarms") THEN {"AWS/Lambda"}
    ELSE IF LastIs("process_alarm_tags") THEN {"AWS/EC2", CWAgent}
    ELSE {}

ListOf(list) ==
    IF list = CWAgent THEN default_alarms[CWAgent][call.platform]
    ELSE default_alarms[list]

\* the entries, <<list, index>>, of the lists the last invocation loops over
Entries == UNION {{<<list, i>> : i \in 1..Len(ListOf(list))} : list \in LoopLists}

EntryTag(e) == ListOf(e[1])[e[2]]

\* the tags of the inputs whose key, period and value are all well formed
WellFormedTags == {GoodEC2, GoodAgent, GoodLambda, DefaultEC2, DefaultAgent, DefaultLambda}

\* C3: a grammar error is scoped to one alarm: when a tag of an invocation of
\* process_alarm_tags is malformed, the invocation does not abort and every
\* other alarm of the invocation is still submitted to the alarm store.
C3_GrammarErrorScoped ==
    (LastIs("process_alarm_tags") /\ PlatformKnown) =>
        /\ ~outcome.raised
        /\ \A e \in Entries : EntryTag(e) \in WellFormedTags => CallsFor(e[1], e[2]) # {}

\* C4: when the Period token cannot be converted by convert_to_seconds, no
\* put_metric_alarm call is issued for that alarm: no alarm definition with an
\* unconverted Period reaches the alarm store.
C4_NoPutWithUnconvertedPeriod ==
    \A p \in 1..Len(putCalls) : putCalls[p].alarm.Period.type = "int"

\* the last invocation again, from the same default_alarms, with a store that
\* fails no call
WithoutStoreFailure ==
    IF LastIs("process_alarm_tags")
    THEN process_alarm_tags(call.resource, InstanceInfo(call.resource, call.ImageId, call.Tags),
                            pre.default_alarms, MetricDimensionsMap, call.sns_topic_arn, CWAgent, {})
    ELSE process_lambda_alarms(call.resource, call.Tags, ActivationTag, pre.default_alarms,
                               call.sns_topic_arn, {})

\* the tags of the inputs that raise no exception
AcceptedTags ==
    WellFormedTags \cup {SpecEC2, BadUnitEC2, SpecAgent, NameTag, AsgTag, ActivationOn}

Activated == \E i \in 1..Len(call.Tags) : call.Tags[i] = ActivationOn

\* C5: a store failure on one alarm is isolated: whatever subset of the
\* put_metric_alarm calls of an invocation of process_alarm_tags or
\* process_lambda_alarms fails, the invocation issues the calls and ends the way
\* it does when no call fails; when no tag is malformed it does not raise and
\* put_metric_alarm is attempted exactly once for every alarm of its lists.
C5_StoreFailureIsolated ==
    (LastIs("process_alarm_tags") \/ LastIs("process_lambda_alarms")) =>
        /\ \E clean \in {WithoutStoreFailure} :
            /\ outcome.raised = clean.raised
            /\ Len(putCalls) = Len(clean.calls)
            /\ \A p \in 1..Len(putCalls) :
                /\ putCalls[p].alarm = clean.calls[p].alarm
                /\ putCalls[p].acked = (p \notin call.fails)
        /\ ( /\ \A i \in 1..Len(call.Tags) : call.Tags[i] \in AcceptedTags
             /\ LastIs("process_alarm_tags") => PlatformKnown
             /\ LastIs("process_lambda_alarms") => Activated )
            => /\ ~outcome.raised
               /\ \A e \in Entries : Cardinality(CallsFor(e[1], e[2])) = 1
               /\ Len(putCalls) = Cardinality(Entries)

C5_Witness ==
    /\ LastIs("process_alarm_tags")
    /\ Len(putCalls) >= 3
    /\ ~putCalls[1].acked /\ ~putCalls[2].acked /\ putCalls[3].acked
    /\ ~outcome.raised

\* C6: delete_alarms(resourceId) lists the alarms whose name starts with
\* AutoAlarm-<resourceId> and issues one batch delete of exactly that set, the
\* empty set included: after a successful call no alarm with the prefix remains,
\* every other alarm is unchanged and the result is True; when the list or the
\* delete call fails nothing is raised, the store is unchanged and the result is
\* not True.
C6_DeleteByPrefix ==
    LastIs("delete_alarms") =>
        LET prefix == "AutoAlarm-" \o call.resource
            matching == {a \in pre.store : startswith(a.AlarmName, prefix)}
        IN /\ ~outcome.raised
           /\ call.list_ok => deleteCalls = <<{a.AlarmName : a \in matching}>>
           /\ ~call.list_ok => deleteCalls = <<>>
           /\ (call.list_ok /\ call.delete_ok) =>
                /\ outcome.value = "True"
                /\ store = pre.store \ matching
                /\ ~\E a \in store : startswith(a.AlarmName, prefix)
                /\ matching = {} => store = pre.store
           /\ ~(call.list_ok /\ call.delete_ok) =>
                /\ outcome.value # "True"
                /\ store = pre.store

C6_Witness ==
    /\ LastIs("delete_alarms")
    /\ outcome.value = "True"
    /\ store # {}
    /\ store # pre.store

\* the tag keys of the agent namespace with k pairs of dimension tokens and a
\* full suffix, each with the fields it is built from
VariableArityTable ==
    {[key |-> VariableArityKey(tokens, suffix), tokens |-> tokens, suffix |-> suffix] :
        tokens \in {t \in SeqsUpTo(DimTokens, 2 * MaxDims) : Len(t) % 2 = 0},
        suffix \in {x \in Suffixes : Len(x) = 3}}

\* the agent dimensions of the instance of the last invocation
AgentDimensions ==
    <<[Name |-> "InstanceId", Value |-> call.resource]>>
        \o (IF \E t \in 1..Len(call.Tags) : call.Tags[t] = AsgTag
            THEN <<[Name |-> "AutoScalingGroupName", Value |-> AsgTag.Value]>>
            ELSE <<>>)

\* the Period of the alarm submitted for a Period token
ExpectedPeriod(token) ==
    IF convert_to_seconds(token).raised THEN PyStr(token)
    ELSE PyInt(convert_to_seconds(token).value)

\* C7: for every agent-namespace tag key with k >= 0 dimension pairs between
\* MetricName and the comparator, the alarm submitted has the agent dimensions
\* followed by exactly those k dimensions in order, the comparator and the two
\* tokens after it as ComparisonOperator, Period and Statistic, and the name
\* AutoAlarm-<ResourceId>-<Namespace>-<MetricName>[-<DimName>-<DimValue>]*-<ComparisonOperator>-<Period>-<Statistic>.
C7_VariableArityParse ==
    ( /\ LastIs("process_alarm_tags")
      /\ PlatformKnown
      /\ \A t \in 1..Len(call.Tags) :
            \/ call.Tags[t] \in AcceptedTags
            \/ \E e \in VariableArityTable : e.key = call.Tags[t].Key ) =>
        \A i \in 1..Len(ListOf(CWAgent)) :
            \A e \in VariableArityTable :
                e.key = ListOf(CWAgent)[i].Key =>
                    /\ Cardinality(CallsFor(CWAgent, i)) = 1
                    /\ \A p \in CallsFor(CWAgent, i) :
                        LET alarm == putCalls[p].alarm
                            k == Len(e.tokens) \div 2
                        IN /\ alarm.Namespace = CWAgent
                           /\ alarm.MetricName = "mem_used_percent"
                           /\ Len(alarm.Dimensions) = Len(AgentDimensions) + k
                           /\ SubSeq(alarm.Dimensions, 1, Len(AgentDimensions)) = AgentDimensions
                           /\ \A d \in 1..k :
                                alarm.Dimensions[Len(AgentDimensions) + d] =
                                    [Name |-> e.tokens[2 * d - 1], Value |-> e.tokens[2 * d]]
                           /\ alarm.ComparisonOperator = e.suffix[1]
                           /\ alarm.Period = ExpectedPeriod(e.suffix[2])
                           /\ alarm.Statistic = e.suffix[3]
                           /\ alarm.AlarmName =
                                Join(<<"AutoAlarm", call.resource, CWAgent, "mem_used_percent">>
                                     \o e.tokens \o e.suffix)

C7_Witness ==
    /\ LastIs("process_alarm_tags")
    /\ call.Tags = <<SpecAgent>>
    /\ \E p \in 1..Len(putCalls) :
        /\ Entry(putCalls[p]) = SpecAgent
        /\ putCalls[p].alarm.Dimensions =
            AgentDimensions \o <<[Name |-> "disk_device", Value |-> "xvda"]>>
        /\ putCalls[p].alarm.ComparisonOperator = "GreaterThanThreshold"

\* C8: process_alarm_tags and process_lambda_alarms leave the configuration
\* they are given, the default_alarms mapping and its lists, unchanged.
C8_ConfigurationUnchanged == default_alarms = pre.default_alarms

\* the list of default_alarms a tag of the instance is appended to, None for a
\* tag that is appended to none
GroupOf(tag) ==
    IF startswith(tag.Key, "AutoAlarm-AWS/EC2-") THEN "AWS/EC2"
    ELSE IF startswith(tag.Key, "AutoAlarm-" \o CWAgent \o "-") THEN CWAgent
    ELSE None

\* the index, in its list, of the entry appended for tag i of the instance
IndexOf(i) ==
    LET list == GroupOf(call.Tags[i])
        before == IF list = CWAgent THEN pre.default_alarms[CWAgent][call.platform]
                  ELSE pre.default_alarms[list]
    IN Len(before) + Cardinality({j \in 1..i : GroupOf(call.Tags[j]) = list})

\* the put_metric_alarm calls of the last invocation issued for tag i
CallsForTag(i) ==
    IF GroupOf(call.Tags[i]) = None THEN {}
    ELSE CallsFor(GroupOf(call.Tags[i]), IndexOf(i))

\* C9: for any two AutoAlarm tags t1 before t2 in the instance's tag sequence,
\* whatever their namespaces, the put_metric_alarm call for t1 happens before the
\* put_metric_alarm call for t2.
C9_TagIterationOrder ==
    (LastIs("process_alarm_tags") /\ PlatformKnown) =>
        \A i, j \in 1..Len(call.Tags) :
            i < j => \A p \in CallsForTag(i), q \in CallsForTag(j) : p < q

\* C9 as amended: the calls are issued list by list, every call of the AWS/EC2
\* list before every call of the agent list, and within a list in the order of
\* its entries; the entries of this instance's tags end each list in the order
\* of the tags, so for two tags of the same namespace the call for the earlier
\* tag comes first.
C9_OrderWithinNamespace ==
    (LastIs("process_alarm_tags") /\ PlatformKnown) =>
        /\ \A p, q \in 1..Len(putCalls) :
            p < q =>
                \/ putCalls[p].list = "AWS/EC2" /\ putCalls[q].list = CWAgent
                \/ putCalls[p].list = putCalls[q].list /\ putCalls[p].index < putCalls[q].index
        /\ \A i \in 1..Len(call.Tags) :
            GroupOf(call.Tags[i]) # None =>
                /\ IndexOf(i) <= Len(ListOf(GroupOf(call.Tags[i])))
                /\ ListOf(GroupOf(call.Tags[i]))[IndexOf(i)] = call.Tags[i]
        /\ \A i, j \in 1..Len(call.Tags) :
            (i < j /\ GroupOf(call.Tags[i]) = GroupOf(call.Tags[j])) =>
                \A p \in CallsForTag(i), q \in CallsForTag(j) : p < q

C9_Witness ==
    /\ LastIs("process_alarm_tags")
    /\ call.Tags = <<GoodAgent, GoodEC2>>
    /\ pre.default_alarms = ConfiguredDefaults
    /\ Len(putCalls) = 4
    /\ Entry(putCalls[2]) = GoodEC2
    /\ Entry(putCalls[4]) = GoodAgent

\* the resource an alarm was created for: the value of its first dimension,
\* FunctionName or InstanceId
OwnerOf(alarm) == alarm.Dimensions[1].Value

\* C10: deletion is confined to the terminated resource: after delete_alarms(A)
\* every alarm that was created for another resource B is still in the store.
C10_DeletionConfined ==
    LastIs("delete_alarms") =>
        \A a \in pre.store : OwnerOf(a) # call.resource => a \in store

====
